---- MODULE Spec2Model ----
(***************************************************************************)
(* Model of src/src/App.js: the React component App of "Hey Picture".      *)
(*                                                                         *)
(* Strings that the code inspects character by character (prompt, apiKey,  *)
(* customText) are sequences of one-character strings.  Lengths are kept   *)
(* in twentieths of a CSS pixel, so that img.width / 20, canvas.width *    *)
(* 0.8, parseInt(ctx.font) * 1.2 and canvas.height / 2 are all integers.   *)
(***************************************************************************)
EXTENDS Integers, Sequences, FiniteSets, TLC

VARIABLES
    prompt,          \* useState('')   App.js:6
    customText,      \* useState('')   App.js:7
    generatedImages, \* useState([])   App.js:8
    loading,         \* useState(false) App.js:9
    error,           \* useState('')   App.js:10
    message,         \* useState('')   App.js:11
    apiKey,          \* useState('')   App.js:12
    pc,              \* position of the one running generateImages call
    request,         \* the fetch in flight (App.js:78-90), NoRequest if none
    text,            \* customText as captured by the running call's closure
    result,          \* the parsed response body (App.js:97) of the last attempt
    size,            \* pixel size of the images of that response
    tasks,           \* the promises handed to Promise.all (App.js:100-111)
    glyphEm,         \* advance width of a letter, in em, of the rendering engine
    lastEvent        \* "generateImages" when the last event handled was the Generate click

vars == <<prompt, customText, generatedImages, loading, error, message, apiKey,
          pc, request, text, result, size, tasks, glyphEm, lastEvent>>

----------------------------------------------------------------------------
(* Bounds of the model *)

MaxPredictions == 4
MaxCaptionLen == 5
MaxGlyphEm == 2
MaxLivePredictions == 2

(* Program constant: parameters: { "sampleCount": 3 } *)
sampleCount == 3

----------------------------------------------------------------------------
(* Characters and strings *)

Letters == {"a", "b"}
\* what String.prototype.trim and a whitespace split treat as white space
WhiteSpace == {" ", "\t"}
Chars == Letters \cup WhiteSpace

RECURSIVE SeqsUpTo(_, _)
SeqsUpTo(S, n) ==
    IF n = 0 THEN {<<>>}
    ELSE LET shorter == SeqsUpTo(S, n - 1)
         IN  shorter \cup {Append(s, c) : s \in {t \in shorter : Len(t) = n - 1}, c \in S}

\* String.prototype.trim: what lies between the first and the last character
\* that is not white space
Trim(s) ==
    LET kept == {i \in 1..Len(s) : s[i] \notin WhiteSpace}
    IN  IF kept = {} THEN <<>>
        ELSE SubSeq(s, CHOOSE i \in kept : \A j \in kept : i <= j,
                       CHOOSE i \in kept : \A j \in kept : i >= j)

\* text.split(' '): the pieces between single U+0020 characters, empty ones kept
RECURSIVE SplitOnSpace(_, _, _)
SplitOnSpace(s, cur, acc) ==
    IF s = <<>> THEN Append(acc, cur)
    ELSE IF Head(s) = " " THEN SplitOnSpace(Tail(s), <<>>, Append(acc, cur))
    ELSE SplitOnSpace(Tail(s), Append(cur, Head(s)), acc)

Split(s) == SplitOnSpace(s, <<>>, <<>>)

\* the caption's words in the sense of a split on white space: the maximal
\* runs of non-white-space characters
RECURSIVE WordsOf(_, _, _)
WordsOf(s, cur, acc) ==
    IF s = <<>> THEN (IF cur = <<>> THEN acc ELSE Append(acc, cur))
    ELSE IF Head(s) \in WhiteSpace
         THEN WordsOf(Tail(s), <<>>, IF cur = <<>> THEN acc ELSE Append(acc, cur))
         ELSE WordsOf(Tail(s), Append(cur, Head(s)), acc)

WhitespaceSplit(s) == WordsOf(s, <<>>, <<>>)

RECURSIVE Flatten(_)
Flatten(ss) == IF ss = <<>> THEN <<>> ELSE Head(ss) \o Flatten(Tail(ss))

----------------------------------------------------------------------------
(* overlayTextOnImage, the img.onload callback (App.js:129-180) *)

\* n pixels, in twentieths of a pixel
Px(n) == 20 * n

\* Math.max(20, img.width / 20), the size put into ctx.font (App.js:141), in
\* twentieths of a pixel: img.width / 20 pixels are w twentieths
FontSize(w) == IF w > Px(20) THEN w ELSE Px(20)

\* parseInt(ctx.font): the integer prefix of "<size>px Inter, sans-serif", in pixels
ParseIntFont(w) == FontSize(w) \div 20

\* const lineHeight = parseInt(ctx.font) * 1.2 (App.js:170)
LineHeight(w) == (ParseIntFont(w) * Px(12)) \div 10

\* const maxWidth = canvas.width * 0.8 (App.js:151)
MaxWidthOf(w) == (Px(w) * 8) \div 10

\* ctx.measureText(s).width at the font set on the context: the sum of the glyph
\* advances.  The engine's font gives a letter an advance of em half-ems; the
\* canvas draws every white-space character as a space, half an em wide.
RECURSIVE MeasureText(_, _, _)
MeasureText(s, w, em) ==
    IF s = <<>> THEN 0
    ELSE (IF Head(s) \in WhiteSpace THEN 1 ELSE em) * (FontSize(w) \div 2)
         + MeasureText(Tail(s), w, em)

\* the test of App.js:160
BreaksLine(testLine, n, w, em) == MeasureText(testLine, w, em) > MaxWidthOf(w) /\ n > 0

\* line = words[n] + ' ' (App.js:162)
StartLine(word) == word \o <<" ">>

\* the for loop of App.js:156-166, from index n (0-based, as in the code)
RECURSIVE WrapLoop(_, _, _, _, _, _)
WrapLoop(words, n, line, lines, w, em) ==
    IF n >= Len(words) THEN [line |-> line, lines |-> lines]
    ELSE LET testLine == line \o words[n + 1] \o <<" ">>
         IN  IF BreaksLine(testLine, n, w, em)
             THEN WrapLoop(words, n + 1, StartLine(words[n + 1]), Append(lines, line), w, em)
             ELSE WrapLoop(words, n + 1, testLine, lines, w, em)

\* the loop's last line never pushed
PushLast_Skipped(lines, line) == lines

\* lines.push(line) after the loop (App.js:167)
PushLast(lines, line) == Append(lines, line)

WrapLines(caption, w, em) ==
    LET end == WrapLoop(Split(caption), 0, <<>>, <<>>, w, em)
    IN  PushLast(end.lines, end.line)

\* let y = canvas.height / 2 - (lines.length - 1) * lineHeight / 2 (App.js:171)
StartY(h, n, lineHeight) == (Px(h) \div 2) - ((n - 1) * lineHeight) \div 2

\* lines.forEach: ctx.fillText(l.trim(), canvas.width / 2, y); y += lineHeight
DrawLines(lines, w, h, lineHeight) ==
    [i \in 1..Len(lines) |->
        [text |-> Trim(lines[i]),
         x    |-> Px(w) \div 2,
         y    |-> StartY(h, Len(lines), lineHeight) + (i - 1) * lineHeight]]

\* a data URL built from a prediction payload (App.js:103)
DataUrl(bytes) == [kind |-> "raw", src |-> bytes]

\* canvas.toDataURL('image/png') of the canvas drawn by onload (App.js:179)
CanvasUrl(imageUrl, caption, sz, em) ==
    CHOOSE canvas \in
        {[kind       |-> "canvas",
          src        |-> imageUrl.src,
          width      |-> sz.w,
          height     |-> sz.h,
          font       |-> FontSize(sz.w),
          lineHeight |-> LineHeight(sz.w),
          drawn      |-> DrawLines(lines, sz.w, sz.h, LineHeight(sz.w))] :
         lines \in {WrapLines(caption, sz.w, em)}} : TRUE

----------------------------------------------------------------------------
(* Values *)

\* what the user can have typed into the prompt and API key fields
FieldValues == {<<>>, <<" ", "\t">>, <<"a">>}

\* what the user can have typed into the custom text field
CaptionChoices == {<<>>, <<" ", "\t">>, <<"a", " ", "b">>}

\* img.width and img.height of the images of a response, in pixels
ImageSizes == {[w |-> 30, h |-> 30], [w |-> 410, h |-> 300]}

NoRequest == [sent |-> FALSE]
NoResult == [parsed |-> FALSE]
NoSize == [w |-> 0, h |-> 0]
NullValue == [kind |-> "null"]

PromptNotice == "Please enter a prompt to generate images."
ApiKeyNotice == "Please enter your Gemini API Key to generate images."
CheckKeyError == "Failed to generate images. Please check your API key and prompt."
NoImagesError == "No images were generated. Please try a different prompt."
UnexpectedError == "An unexpected error occurred during image generation."

\* messages of the errors the environment raises or the service sends
ThrownMessages == {"", "Failed to fetch"}
ServiceMessages == {"", "API key not valid."}

\* the entries of result.predictions: one with an image payload or one without
\* the bytesBase64Encoded field; a response can also hold a null entry
EntryKinds == {"image", "nopayload"}
NullResponses == {<<"null">>, <<"image", "null">>, <<"null", "image">>}

\* the i-th entry of a response; payloads are told apart by their position
Prediction(kind, i) ==
    [kind |-> kind, bytesBase64Encoded |-> IF kind = "image" THEN i ELSE 0]

\* the bodies response.json() can resolve to (App.js:97)
Results ==
    {[parsed |-> TRUE, hasPredictions |-> FALSE, predictions |-> <<>>]}
    \cup {[parsed |-> TRUE, hasPredictions |-> TRUE,
           predictions |-> [i \in 1..Len(ks) |-> Prediction(ks[i], i)]] :
          ks \in SeqsUpTo(EntryKinds, MaxPredictions) \cup NullResponses}

----------------------------------------------------------------------------
(* generateImages (App.js:63-122) *)

\* !prompt.trim() (App.js:64)
PromptMissing == Trim(prompt) = <<>>

\* the API key tested without trimming it
ApiKeyMissing_NoTrim == apiKey = <<>>

\* !apiKey.trim() (App.js:68)
ApiKeyMissing == Trim(apiKey) = <<>>

\* the caption tested without trimming it
HasCaption_NoTrim(caption) == caption # <<>>

\* customText.trim() (App.js:104)
HasCaption(caption) == Trim(caption) # <<>>

\* the callback handed to result.predictions.map (App.js:101-110), run up to
\* its first await: the promise it returns
MapPrediction(prediction, caption) ==
    IF prediction.kind = "null"
    THEN [state |-> "rejected", value |-> NullValue, imageUrl |-> NullValue]
    ELSE IF prediction.bytesBase64Encoded # 0
         THEN LET imageUrl == DataUrl(prediction.bytesBase64Encoded)
              IN  IF HasCaption(caption)
                  THEN [state |-> "pending", value |-> NullValue, imageUrl |-> imageUrl]
                  ELSE [state |-> "fulfilled", value |-> imageUrl, imageUrl |-> imageUrl]
         ELSE [state |-> "fulfilled", value |-> NullValue, imageUrl |-> NullValue]

\* imagesWithText.filter(Boolean) (App.js:112)
RECURSIVE FilterBoolean(_)
FilterBoolean(values) ==
    IF values = <<>> THEN <<>>
    ELSE IF Head(values) = NullValue THEN FilterBoolean(Tail(values))
    ELSE <<Head(values)>> \o FilterBoolean(Tail(values))

\* the values Promise.all resolves to: those of the promises, in their order
PromiseAllValues(ps) == [i \in 1..Len(ps) |-> ps[i].value]

\* result.predictions && result.predictions.length > 0 (App.js:99)
HasPredictions(r) == r.hasPredictions /\ Len(r.predictions) > 0

\* the catch block without the finally block after it
Catch_NoFinally(msg) ==
    /\ error' = (IF msg # "" THEN msg ELSE UnexpectedError)
    /\ loading' = loading
    /\ pc' = "idle"

\* catch (err) and finally (App.js:116-121)
Catch(msg) ==
    /\ error' = (IF msg # "" THEN msg ELSE UnexpectedError)
    /\ loading' = FALSE
    /\ pc' = "idle"

SetPrompt(v) ==
    /\ prompt' = v
    /\ lastEvent' = "other"
    /\ UNCHANGED <<customText, generatedImages, loading, error, message, apiKey,
                   pc, request, text, result, size, tasks, glyphEm>>

SetCustomText(v) ==
    /\ customText' = v
    /\ lastEvent' = "other"
    /\ UNCHANGED <<prompt, generatedImages, loading, error, message, apiKey,
                   pc, request, text, result, size, tasks, glyphEm>>

SetApiKey(v) ==
    /\ apiKey' = v
    /\ lastEvent' = "other"
    /\ UNCHANGED <<prompt, customText, generatedImages, loading, error, message,
                   pc, request, text, result, size, tasks, glyphEm>>

\* handleCloseMessage (App.js:199-201); the modal's button exists while message is set
HandleCloseMessage ==
    /\ message # ""
    /\ message' = ""
    /\ lastEvent' = "other"
    /\ UNCHANGED <<prompt, customText, generatedImages, loading, error, apiKey,
                   pc, request, text, result, size, tasks, glyphEm>>

\* a click on the Generate button, which is disabled while loading (App.js:269-270):
\* generateImages up to its first await (App.js:63-90)
GenerateImages ==
    /\ ~loading
    /\ lastEvent' = "generateImages"
    /\ IF PromptMissing
       THEN /\ message' = PromptNotice
            /\ UNCHANGED <<generatedImages, loading, error, pc, request, text,
                           result, size, tasks>>
       ELSE IF ApiKeyMissing
       THEN /\ message' = ApiKeyNotice
            /\ UNCHANGED <<generatedImages, loading, error, pc, request, text,
                           result, size, tasks>>
       ELSE /\ loading' = TRUE
            /\ error' = ""
            /\ generatedImages' = <<>>
            /\ request' = [sent |-> TRUE, prompt |-> prompt, key |-> apiKey,
                           sampleCount |-> sampleCount]
            /\ text' = customText
            /\ pc' = "fetch"
            /\ result' = NoResult
            /\ size' = NoSize
            /\ tasks' = <<>>
            /\ UNCHANGED message
    /\ UNCHANGED <<prompt, customText, apiKey, glyphEm>>

\* await fetch(...) rejects: a transport error (App.js:86, 116-121)
FetchRejected ==
    /\ pc = "fetch"
    /\ \E msg \in ThrownMessages : Catch(msg)
    /\ request' = NoRequest
    /\ lastEvent' = "other"
    /\ UNCHANGED <<prompt, customText, generatedImages, message, apiKey, text,
                   result, size, tasks, glyphEm>>

\* await fetch(...) resolves to a response, ok or not (App.js:86-92)
FetchResolved ==
    /\ pc = "fetch"
    /\ \E ok \in BOOLEAN : pc' = (IF ok THEN "body" ELSE "errorBody")
    /\ request' = NoRequest
    /\ lastEvent' = "other"
    /\ UNCHANGED <<prompt, customText, generatedImages, loading, error, message,
                   apiKey, text, result, size, tasks, glyphEm>>

\* !response.ok: await response.json() and throw (App.js:92-95, 116-121)
ErrorBody ==
    /\ pc = "errorBody"
    /\ \/ \E msg \in ThrownMessages : Catch(msg)
       \/ \E m \in ServiceMessages : Catch(IF m # "" THEN m ELSE CheckKeyError)
    /\ lastEvent' = "other"
    /\ UNCHANGED <<prompt, customText, generatedImages, message, apiKey, request,
                   text, result, size, tasks, glyphEm>>

\* const result = await response.json() rejects (App.js:97, 116-121)
BodyRejected ==
    /\ pc = "body"
    /\ \E msg \in ThrownMessages : Catch(msg)
    /\ lastEvent' = "other"
    /\ UNCHANGED <<prompt, customText, generatedImages, message, apiKey, request,
                   text, result, size, tasks, glyphEm>>

\* const result = await response.json() resolves; the code up to await Promise.all,
\* or the else branch and finally (App.js:97-115, 119-121)
BodyParsed ==
    /\ pc = "body"
    /\ \E r \in Results, sz \in ImageSizes :
          /\ result' = r
          /\ IF HasPredictions(r)
             THEN /\ tasks' = [i \in 1..Len(r.predictions) |->
                                  MapPrediction(r.predictions[i], text)]
                  /\ size' = sz
                  /\ pc' = "all"
                  /\ UNCHANGED <<loading, error>>
             ELSE /\ error' = NoImagesError
                  /\ loading' = FALSE
                  /\ pc' = "idle"
                  /\ UNCHANGED <<tasks, size>>
    /\ lastEvent' = "other"
    /\ UNCHANGED <<prompt, customText, generatedImages, message, apiKey, request,
                   text, glyphEm>>

\* img.onload of the i-th overlay (App.js:129-180)
ImgOnload(i) ==
    /\ tasks[i].state = "pending"
    /\ tasks' = [tasks EXCEPT ![i] =
                    [state |-> "fulfilled",
                     value |-> CanvasUrl(tasks[i].imageUrl, text, size, glyphEm),
                     imageUrl |-> tasks[i].imageUrl]]
    /\ lastEvent' = "other"
    /\ UNCHANGED <<prompt, customText, generatedImages, loading, error, message,
                   apiKey, pc, request, text, result, size, glyphEm>>

\* img.onerror resolving with nothing
OnerrorValue_Null(imageUrl) == NullValue

\* resolve(imageUrl) of img.onerror (App.js:183)
OnerrorValue(imageUrl) == imageUrl

\* img.onerror of the i-th overlay (App.js:181-184)
ImgOnerror(i) ==
    /\ tasks[i].state = "pending"
    /\ tasks' = [tasks EXCEPT ![i] =
                    [state |-> "fulfilled",
                     value |-> OnerrorValue(tasks[i].imageUrl),
                     imageUrl |-> tasks[i].imageUrl]]
    /\ lastEvent' = "other"
    /\ UNCHANGED <<prompt, customText, generatedImages, loading, error, message,
                   apiKey, pc, request, text, result, size, glyphEm>>

\* resolving as soon as one promise is fulfilled, as Promise.any does
AnyFulfilled(ps) == \E i \in 1..Len(ps) : ps[i].state = "fulfilled"

\* Promise.all resolves once every promise is fulfilled (App.js:100)
AllFulfilled(ps) == \A i \in 1..Len(ps) : ps[i].state = "fulfilled"

\* await Promise.all(...) resolves; setGeneratedImages and finally (App.js:100-112, 119-121)
PromiseAllFulfilled ==
    /\ pc = "all"
    /\ AllFulfilled(tasks)
    /\ generatedImages' = FilterBoolean(PromiseAllValues(tasks))
    /\ loading' = FALSE
    /\ pc' = "idle"
    /\ lastEvent' = "other"
    /\ UNCHANGED <<prompt, customText, error, message, apiKey, request, text,
                   result, size, tasks, glyphEm>>

\* await Promise.all(...) rejects because a map callback threw on a null entry
\* (App.js:102, 116-121)
PromiseAllRejected ==
    /\ pc = "all"
    /\ \E i \in 1..Len(tasks) : tasks[i].state = "rejected"
    /\ Catch("Cannot read properties of null")
    /\ lastEvent' = "other"
    /\ UNCHANGED <<prompt, customText, generatedImages, message, apiKey, request,
                   text, result, size, tasks, glyphEm>>

----------------------------------------------------------------------------
(* The component *)

Init ==
    /\ prompt = <<>>
    /\ customText = <<>>
    /\ generatedImages = <<>>
    /\ loading = FALSE
    /\ error = ""
    /\ message = ""
    /\ apiKey = <<>>
    /\ pc = "idle"
    /\ request = NoRequest
    /\ text = <<>>
    /\ result = NoResult
    /\ size = NoSize
    /\ tasks = <<>>
    /\ glyphEm = 1
    /\ lastEvent = "other"

Next ==
    \/ \E v \in FieldValues : SetPrompt(v)
    \/ \E v \in CaptionChoices : SetCustomText(v)
    \/ \E v \in FieldValues : SetApiKey(v)
    \/ HandleCloseMessage
    \/ GenerateImages
    \/ FetchRejected
    \/ FetchResolved
    \/ ErrorBody
    \/ BodyRejected
    \/ BodyParsed
    \/ \E i \in 1..Len(tasks) : ImgOnload(i)
    \/ \E i \in 1..Len(tasks) : ImgOnerror(i)
    \/ PromiseAllFulfilled
    \/ PromiseAllRejected

Spec == Init /\ [][Next]_vars

----------------------------------------------------------------------------
(* overlayTextOnImage on its own: one call awaited by Promise.all, for every
   caption generateImages can pass to it (App.js:104-105), every image size
   and every glyph advance within the bounds *)

OverlaySizes ==
    ImageSizes \cup {[w |-> 50, h |-> 40], [w |-> 1024, h |-> 1024]}

\* the captions that reach overlayTextOnImage: customText.trim() is not empty
OverlayCaptions == {c \in SeqsUpTo(Chars, MaxCaptionLen) : Trim(c) # <<>>}

OverlayInit ==
    /\ prompt = <<"a">>
    /\ apiKey = <<"a">>
    /\ customText \in OverlayCaptions
    /\ text = customText
    /\ generatedImages = <<>>
    /\ loading = TRUE
    /\ error = ""
    /\ message = ""
    /\ pc = "all"
    /\ request = NoRequest
    /\ result = [parsed |-> TRUE, hasPredictions |-> TRUE,
                 predictions |-> <<Prediction("image", 1)>>]
    /\ size \in OverlaySizes
    /\ tasks = <<MapPrediction(Prediction("image", 1), text)>>
    /\ glyphEm \in 1..MaxGlyphEm
    /\ lastEvent = "other"

OverlayNext ==
    \/ \E i \in 1..Len(tasks) : ImgOnload(i)
    \/ \E i \in 1..Len(tasks) : ImgOnerror(i)
    \/ PromiseAllFulfilled

OverlaySpec == OverlayInit /\ [][OverlayNext]_vars

----------------------------------------------------------------------------
(* Properties *)

\* the images composited so far for the current response
Composited ==
    {tasks[i].value : i \in {j \in 1..Len(tasks) :
        tasks[j].state = "fulfilled" /\ tasks[j].value.kind = "canvas"}}

\* the words of the drawn lines, in line order
LineWords(canvas) ==
    Flatten([i \in 1..Len(canvas.drawn) |-> WhitespaceSplit(canvas.drawn[i].text)])

\* C2: the words of the lines drawn on an image, in line order and split on
\* white space, are the caption's own words in order: none dropped, reordered
\* or duplicated, whatever the glyph advance and the image width.
C2_WordsPreserved ==
    \A c \in Composited : LineWords(c) = WhitespaceSplit(text)

C2_Witness ==
    \E c \in Composited :
        /\ Len(c.drawn) >= 2
        /\ Len(WhitespaceSplit(text)) >= 3
        /\ \E i \in 1..Len(c.drawn) : Len(WhitespaceSplit(c.drawn[i].text)) >= 2

\* C3: every drawn line is at most 0.8 x W wide, except a line that consists of
\* a single word itself wider than that; no line of two or more words exceeds it.
C3_LinesFitBudget ==
    \A c \in Composited : \A i \in 1..Len(c.drawn) :
        LET l == c.drawn[i].text
        IN  \/ MeasureText(l, c.width, glyphEm) * 10 <= Px(c.width) * 8
            \/ Len(WhitespaceSplit(l)) = 1

\* C9: the line height is exactly 1.2 x the font size max(20, W / 20); the first
\* line is drawn at H/2 - (N-1) x lineHeight / 2 and the lines are lineHeight apart.
C9_LineHeightExact ==
    \A c \in Composited :
        LET fontSize == IF c.width > 400 THEN c.width ELSE 400
            N == Len(c.drawn)
        IN  /\ c.lineHeight * 10 = fontSize * 12
            /\ c.drawn[1].y * 2 = Px(c.height) - (N - 1) * c.lineHeight
            /\ \A i \in 1..(N - 1) : c.drawn[i + 1].y - c.drawn[i].y = c.lineHeight

\* the positions of the response's entries that carry an image payload, in order
RECURSIVE UsableFrom(_, _)
UsableFrom(ps, i) ==
    IF i > Len(ps) THEN <<>>
    ELSE (IF ps[i].bytesBase64Encoded # 0 THEN <<i>> ELSE <<>>) \o UsableFrom(ps, i + 1)

Usable == IF result.parsed THEN UsableFrom(result.predictions, 1) ELSE <<>>

\* the last attempt got a response body and ran to its end without an exception
Completed ==
    /\ pc = "idle"
    /\ result.parsed
    /\ \A i \in 1..Len(tasks) : tasks[i].state = "fulfilled"

\* C1: a click on Generate with a blank prompt, or with a prompt and a blank API
\* key, issues no request and sets a validation notice; loading, error and the
\* displayed images stay as they were.
C1_ValidationOnly ==
    [][(lastEvent' = "generateImages" /\ (Trim(prompt) = <<>> \/ Trim(apiKey) = <<>>))
        => /\ message' = (IF Trim(prompt) = <<>> THEN PromptNotice ELSE ApiKeyNotice)
           /\ request' = NoRequest
           /\ pc' = "idle"
           /\ loading' = loading
           /\ error' = error
           /\ generatedImages' = generatedImages]_vars

C1_Witness ==
    /\ lastEvent = "generateImages"
    /\ Trim(prompt) # <<>>
    /\ apiKey # <<>> /\ Trim(apiKey) = <<>>
    /\ message = ApiKeyNotice
    /\ generatedImages # <<>>
    /\ pc = "idle"

\* C4: with an empty or white-space-only caption no overlay is started for any
\* image of the response, and the images shown are the data URLs built from the
\* prediction payloads, unchanged.
C4_BlankCaptionPassThrough ==
    (Trim(text) = <<>>) =>
        /\ \A i \in 1..Len(tasks) :
              /\ tasks[i].state # "pending"
              /\ tasks[i].value.kind # "canvas"
        /\ Completed /\ Len(tasks) > 0 =>
              generatedImages = [n \in 1..Len(Usable) |-> DataUrl(Usable[n])]

C4_Witness ==
    /\ Completed
    /\ text # <<>> /\ Trim(text) = <<>>
    /\ Len(result.predictions) = sampleCount
    /\ generatedImages = [n \in 1..sampleCount |-> DataUrl(n)]

\* C5: never more images are displayed than were requested (sampleCount).
C5_AtMostRequested == Len(generatedImages) <= sampleCount

\* C6: images are presented only once every overlay of the response has
\* completed, and the Nth image shown comes from the Nth image of the response.
C6_JoinedInOrder ==
    /\ pc = "all" => generatedImages = <<>>
    /\ generatedImages # <<>> =>
          /\ \A i \in 1..Len(tasks) : tasks[i].state = "fulfilled"
          /\ Len(generatedImages) = Len(Usable)
          /\ \A n \in 1..Len(generatedImages) :
                /\ generatedImages[n].src = result.predictions[Usable[n]].bytesBase64Encoded
                /\ generatedImages[n] = tasks[Usable[n]].value

C6_Witness ==
    /\ Len(generatedImages) = 3
    /\ Len(result.predictions) = 4
    /\ generatedImages[1].kind = "canvas"
    /\ generatedImages[2].kind = "raw"
    /\ generatedImages[3].kind = "canvas"

\* C7: a successful response without any usable prediction (predictions missing,
\* empty, or no entry with an image payload) ends as a failure: the error banner
\* is set and no image is displayed.
C7_EmptyResultIsError ==
    (pc = "idle" /\ result.parsed /\ Usable = <<>>) =>
        error # "" /\ generatedImages = <<>>

\* C8: an image whose decoding fails during the overlay is shown undecorated;
\* the other images of the batch are still composited and shown, the attempt
\* succeeds and the error banner stays clear.
C8_DecodeFailureAbsorbed ==
    (Trim(text) # <<>> /\ result.parsed) =>
        /\ \A i \in 1..Len(tasks) :
              (tasks[i].state = "fulfilled" /\ tasks[i].value.kind = "raw")
                  => tasks[i].value = DataUrl(result.predictions[i].bytesBase64Encoded)
        /\ Completed /\ Len(tasks) > 0 =>
              /\ error = ""
              /\ ~loading
              /\ Len(generatedImages) = Len(Usable)
              /\ \A n \in 1..Len(Usable) :
                    \/ generatedImages[n] = DataUrl(Usable[n])
                    \/ /\ generatedImages[n].kind = "canvas"
                       /\ generatedImages[n].src = Usable[n]

C8_Witness ==
    /\ Completed
    /\ Trim(text) # <<>>
    /\ error = ""
    /\ Len(generatedImages) = 2
    /\ generatedImages[1] = DataUrl(1)
    /\ generatedImages[2].kind = "canvas"

----------------------------------------------------------------------------
(* Liveness: the browser settles every fetch and every body read, and fires
   load or error for every image whose src was set *)

\* a step of the browser: a promise settles or an image event fires
BrowserStep ==
    \/ FetchRejected
    \/ FetchResolved
    \/ ErrorBody
    \/ BodyRejected
    \/ BodyParsed
    \/ \E i \in 1..Len(tasks) : ImgOnload(i)
    \/ \E i \in 1..Len(tasks) : ImgOnerror(i)
    \/ PromiseAllFulfilled
    \/ PromiseAllRejected

Fairness == WF_vars(BrowserStep)

\* liveness is explored for responses of at most MaxLivePredictions entries
LiveBound == result.parsed => Len(result.predictions) <= MaxLivePredictions

LiveNext ==
    \/ \E v \in FieldValues : SetPrompt(v)
    \/ \E v \in CaptionChoices : SetCustomText(v)
    \/ \E v \in FieldValues : SetApiKey(v)
    \/ HandleCloseMessage
    \/ GenerateImages
    \/ FetchRejected
    \/ FetchResolved
    \/ ErrorBody
    \/ BodyRejected
    \/ BodyParsed /\ LiveBound'
    \/ \E i \in 1..Len(tasks) : ImgOnload(i)
    \/ \E i \in 1..Len(tasks) : ImgOnerror(i)
    \/ PromiseAllFulfilled
    \/ PromiseAllRejected

FairSpec == Init /\ [][LiveNext]_vars /\ Fairness

\* C10: every started attempt finishes with loading reset to false, whatever
\* its outcome, so Generate is enabled again.
C10_LoadingEventuallyReset == loading ~> (~loading /\ pc = "idle")

C10_Witness ==
    /\ ~loading
    /\ pc = "idle"
    /\ error = "Cannot read properties of null"
    /\ \E i \in 1..Len(tasks) : tasks[i].state = "pending"

====
